---- MODULE Spec2Model ----
(***************************************************************************)
(* State-machine model of the privileged (main) process of the VoiceApp     *)
(* desktop client: src/main.js.  One action per event-loop task (an IPC     *)
(* handler, an app lifecycle event, a window event, a global-shortcut       *)
(* callback).  The hotkey:update handler is modelled call by call (each     *)
(* call it makes to the OS is one step) so that the window between          *)
(* "old unregistered" and "new registered" is a state of the model; the     *)
(* event loop's run-to-completion rule (Dispatchable) decides what may run  *)
(* in that window.  Other processes that grab or release accelerators are   *)
(* the environment and are not bound by the event loop.                     *)
(***************************************************************************)
EXTENDS Naturals, Sequences, FiniteSets, TLC

(* ------------------------------------------------------------------ *)
(* Bounds                                                             *)
(* ------------------------------------------------------------------ *)

\* Total number of BrowserWindow objects ever constructed in a behaviour.
MaxWindows == 3

\* Number of hotkey:toggle-mute notifications a window may receive.
MaxTriggers == 1

\* Number of superseded origin loads whose rejection is still to be delivered.
MaxStale == 1

\* The keys a behaviour leaves holding something else than on a first run.
MaxDirty == 1

\* settings:set requests waiting in the event loop.
MaxInbox == 2

\* Update checks started by the hourly timer and by app:checkForUpdates in one
\* run of the process.
MaxChecks == 2

(* ------------------------------------------------------------------ *)
(* Accelerators                                                       *)
(* ------------------------------------------------------------------ *)

\* An accelerator string "a+b+c" is the sequence of its '+'-separated tokens.
ModifierTokens == {"CommandOrControl", "Shift", "Alt"}

KeyTokens == {"M", "X"}

\* No accelerator: undefined / null in the source.
NoAccel == <<>>

\* main.js:23  process.env.HOTKEY_TOGGLE_MUTE || 'CommandOrControl+Shift+M'
hotkeyToggleMute == <<"CommandOrControl", "Shift", "M">>

\* The accelerator strings a renderer may pass or the store may hold.
Accels == { hotkeyToggleMute, <<"Alt", "X">>, <<"Alt", "Dead">> }

\* Electron parses an accelerator into modifiers and one key code; a string
\* it cannot parse makes globalShortcut.register / unregister raise a TypeError.
Parsable(a) ==
    /\ Len(a) >= 1
    /\ a[Len(a)] \in KeyTokens
    /\ \A i \in 1..(Len(a) - 1) : a[i] \in ModifierTokens

(* ------------------------------------------------------------------ *)
(* Settings store (main.js:43-51, the electron-store instance)        *)
(* ------------------------------------------------------------------ *)

\* A JavaScript value is written as its source text; Undefined is also what a
\* key the store does not hold reads as.
Undefined == "undefined"

\* main.js:43-51  the defaults the store is constructed with; the store holds
\* them from its construction on.
defaults ==
    [ windowBounds       |-> "{width:1200,height:800}",
      micMuted           |-> "false",
      volume             |-> "100",
      noiseGateEnabled   |-> "true",
      noiseGateThreshold |-> "-50" ]

\* The keys the pages and the documentation name that have no default
\* (preload.js:80, main.js:473, README.md:183-184), and a key nobody names:
\* settings:set and settings:get take any string.
UndefaultedKeys == { "displayName", "lastRoom", "selectedMicrophone" }

StrangerKey == "theme"

\* The keys holding plain values, and with 'hotkey' (an accelerator, NoAccel
\* when the store does not hold it) all the keys of the model's store.
JsKeys == DOMAIN defaults \cup UndefaultedKeys \cup { StrangerKey }

StoreKeys == JsKeys \cup { "hotkey" }

\* The values a page passes to settings:set: nothing, a number that JSON
\* cannot write, and a number and a string that it can.
JsValues == { Undefined, "NaN", "55", "'Bob'" }

\* The store writes its file with JSON.stringify and reads it back with
\* JSON.parse on every access: NaN is written as null.
Serialized(v) == IF v = "NaN" THEN "null" ELSE v

\* The store of a first run.
InitStore ==
    [ k \in StoreKeys |-> IF k = "hotkey" THEN NoAccel
                          ELSE IF k \in DOMAIN defaults THEN defaults[k]
                          ELSE Undefined ]

\* store.set(key, value) raises a TypeError for an undefined value.
StoreSetThrows(v) == v = Undefined

\* Mutant of StoreWrite: the value is not written.
StoreWriteDropped(st, key, v) == st

\* store.set(key, value) otherwise.
StoreWrite(st, key, v) == [ st EXCEPT ![key] = Serialized(v) ]

\* store.get(key)
StoreGet(st, key) == st[key]

\* store.store: the keys the store holds.
StoreAll(st) ==
    { k \in StoreKeys : st[k] # (IF k = "hotkey" THEN NoAccel ELSE Undefined) }

\* The keys holding something else than on a first run.
Dirty(st) == { k \in JsKeys : st[k] # InitStore[k] }

(* ------------------------------------------------------------------ *)
(* State                                                              *)
(* ------------------------------------------------------------------ *)

VARIABLES
    phase,           \* "off" | "running" | "quit": the process
    isDarwin,        \* process.platform === 'darwin'
    store,           \* electron-store contents: key |-> value; 'hotkey' holds an
                     \* accelerator or NoAccel
    currentHotkey,   \* main.js:281
    osReg,           \* accelerators this process holds registered with the OS
    otherHeld,       \* accelerators other processes hold registered
    wins,            \* window id -> "none" | "main" | "settings" |
                     \*              "main.closed" | "settings.closed"
    mainWindow,      \* main.js:151 (0 = null)
    settingsWindow,  \* main.js:152 (0 = null)
    settingsClosing, \* settingsWindow.close() was called, 'closed' not yet emitted
    received,        \* open window id -> number of hotkey:toggle-mute messages sent
                     \* to it (0 for a window that does not exist)
    hk,              \* the hotkey:update handler in execution; once it has returned,
                     \* its request and answer until the next task is dispatched
    lastOp,          \* the handlers run by the last event-loop task
    errorInfo,       \* main.js:153: "null" or the captured failure message
    content,         \* what the main window displays: "blank" (nothing of the
                     \* application) | "origin" | "error" (error.html) |
                     \* "foreign" (a page of another origin)
    nav,             \* the main window's navigation in flight: "none" |
                     \* "initial" (loadURL of createWindow) | "retry" (loadURL of
                     \* error:retry) | "error" (loadFile('error.html'))
    abortedLoads,    \* loadURL promises of abandoned navigations, not yet rejected
    originUp,        \* the remote origin is reachable
    env,             \* process.env: AUTO_UPDATE_ENABLED and NODE_ENV
    updater,         \* main.js:103 autoUpdaterInitialized, the observers each
                     \* updater event has, the hourly timer and the checks started
    geom,            \* the main window's normal bounds (getBounds() when it is
                     \* not maximized) and isMaximized(); NoGeom without window
    inbox,           \* settings:set requests received from the bridge whose
                     \* handler has not run yet, oldest first
    settingsPage,    \* the settings page: where its saveSettings stands, the
                     \* hotkey it saves, what hotkey:update answered it and
                     \* the status it shows for the hotkey
    lastReceived     \* key -> the value of the request received last for it in
                     \* this run ("none" when there was none), and whether it
                     \* arrived behind a waiting request for the same key

\* The connection supervisor's state and its environment.
connVars == << errorInfo, content, nav, abortedLoads, originUp >>

\* The requests in the event loop's queue.
queueVars == << inbox, lastReceived >>

\* What the lifecycle sets and the handlers of the windows, the hotkey, the
\* store and the connection leave alone.
sideVars == << env, updater, geom, inbox, lastReceived, settingsPage >>

vars == << phase, isDarwin, store, currentHotkey, osReg, otherHeld, wins,
           mainWindow, settingsWindow, settingsClosing, received, hk, lastOp,
           errorInfo, content, nav, abortedLoads, originUp,
           env, updater, geom, inbox, lastReceived, settingsPage >>

WinIds == 1..MaxWindows

NoWindow == 0

OpenWins == { w \in WinIds : wins[w] \in {"main", "settings"} }

\* The ids not yet given to a BrowserWindow.
FreshIds == { w \in WinIds : wins[w] = "none" }

NextId == CHOOSE w \in FreshIds : \A v \in FreshIds : w <= v

HkIdle == [ pc |-> "idle", new |-> NoAccel, old |-> NoAccel, startReg |-> {},
            heldByOther |-> FALSE, newOutcome |-> "none", rollback |-> "none",
            success |-> FALSE, error |-> "" ]

\* ---- the environment and the updater (main.js:19-22, 103-145) ----

\* A variable the environment does not set.
Unset == "unset"

\* The environments a run may have.
Envs == [ AUTO_UPDATE_ENABLED : { Unset, "true", "false" },
          NODE_ENV            : { Unset, "development" } ]

\* The environment of an installation that sets nothing.
PlainEnv == [ AUTO_UPDATE_ENABLED |-> Unset, NODE_ENV |-> Unset ]

\* main.js:19  process.env.NODE_ENV === 'development'
isDev(e) == e.NODE_ENV = "development"

\* main.js:22  process.env.AUTO_UPDATE_ENABLED !== 'false'
autoUpdateEnabled(e) == e.AUTO_UPDATE_ENABLED # "false"

\* The updater of a process that has not touched it.  observers is the number
\* of observers of each of the five events, which initAutoUpdater registers
\* together.
UpdaterOff == [ initialized |-> FALSE, observers |-> 0, timer |-> FALSE,
                startupChecks |-> 0, timerChecks |-> 0, manualChecks |-> 0 ]

\* Mutant of initAutoUpdater: the guard of main.js:106-108 is missing.
initAutoUpdaterUnguarded(u) ==
    [ u EXCEPT !.initialized = TRUE, !.observers = @ + 1 ]

\* initAutoUpdater (main.js:105-132)
initAutoUpdater(u) ==
    IF u.initialized THEN u
    ELSE [ u EXCEPT !.initialized = TRUE, !.observers = @ + 1 ]

\* Mutant of StartsChecksItself: the development posture is not looked at.
StartsChecksInDev(e) == autoUpdateEnabled(e)

\* main.js:134  autoUpdateEnabled && !isDev
StartsChecksItself(e) == autoUpdateEnabled(e) /\ ~isDev(e)

\* main.js:134-145, run when the main script is loaded: the updater is set
\* up, one check is started and the hourly timer is scheduled.
StartupUpdater(e) ==
    IF StartsChecksItself(e)
    THEN [ initAutoUpdater(UpdaterOff) EXCEPT !.startupChecks = 1,
                                              !.timer = TRUE ]
    ELSE UpdaterOff

\* ---- the main window's geometry (main.js:155-163, 174-185) ----

\* The rectangles getBounds() answers, as the text of the object.
Rects == { "{x:0,y:0,width:1200,height:800}",
           "{x:0,y:0,width:800,height:600}",
           "{x:40,y:40,width:800,height:600}" }

\* << v.width, v.height >> of a stored value, << >> when it has no such
\* properties (a number, a string).
SizeOf(v) ==
    CASE v \in { "{width:1200,height:800}", "{x:0,y:0,width:1200,height:800}" }
             -> << 1200, 800 >>
      [] v \in { "{x:0,y:0,width:800,height:600}",
                 "{x:40,y:40,width:800,height:600}" }
             -> << 800, 600 >>
      [] OTHER -> << >>

NoGeom == [ bounds |-> "none", maximized |-> FALSE ]

\* main.js:156-159  bounds.width of a stored null raises a TypeError.
CreateWindowThrows(st) == st.windowBounds = "null"

\* main.js:158-161  new BrowserWindow({ width: bounds.width, height:
\* bounds.height, ... }): a missing width or height makes the window
\* 800 by 600.
CreatedGeom(st) ==
    [ bounds    |-> IF SizeOf(st.windowBounds) = << 1200, 800 >>
                    THEN "{x:0,y:0,width:1200,height:800}"
                    ELSE "{x:0,y:0,width:800,height:600}",
      maximized |-> FALSE ]

\* ---- the queue of settings:set requests ----

\* The keys the queued requests are about.
QueuedKeys == { "volume", "displayName" }

NoneReceived == [ k \in QueuedKeys |-> [ value |-> "none", behind |-> FALSE ] ]

\* ---- the settings page (settings.js:332-372) ----

\* The page as it is loaded: saveSettings is not running, no status is shown.
PageIdle == [ pc |-> "idle", hotkey |-> NoAccel, answer |-> "none",
              hotkeyStatus |-> "none" ]

\* The state of a process before app.whenReady(), but for its environment.
InitCore ==
    /\ phase = "off"
    /\ isDarwin \in BOOLEAN
    /\ store = InitStore
    /\ currentHotkey = NoAccel
    /\ osReg = {}
    /\ otherHeld = {}
    /\ wins = [ w \in WinIds |-> "none" ]
    /\ mainWindow = NoWindow
    /\ settingsWindow = NoWindow
    /\ settingsClosing = FALSE
    /\ received = [ w \in WinIds |-> 0 ]
    /\ hk = HkIdle
    /\ lastOp = << >>
    /\ errorInfo = "null"
    /\ content = "blank"
    /\ nav = "none"
    /\ abortedLoads = 0
    /\ originUp = TRUE
    /\ updater = UpdaterOff
    /\ geom = NoGeom
    /\ inbox = << >>
    /\ lastReceived = NoneReceived
    /\ settingsPage = PageIdle

\* An installation that sets no variable.
Init == InitCore /\ env = PlainEnv

\* An installation with any environment.
EnvInit == InitCore /\ env \in Envs


(* ------------------------------------------------------------------ *)
(* The OS global-shortcut facility (electron globalShortcut)          *)
(* ------------------------------------------------------------------ *)

\* globalShortcut.register(a, cb): "throw" when a cannot be parsed, "declined"
\* (returns false) when a is taken by another process or by this one, else "ok".
RegisterOutcome(reg, a) ==
    IF ~Parsable(a) THEN "throw"
    ELSE IF a \in (reg \cup otherHeld) THEN "declined"
    ELSE "ok"

\* The registrations held after register(a) ended with outcome o.
AfterRegister(reg, a, o) == IF o = "ok" THEN reg \cup {a} ELSE reg

\* Mutant of UnregisterOld: the old accelerator is left registered.
UnregisterOldSkipped(reg, a) == reg

\* globalShortcut.unregister(a) for a parsable a (main.js:311).
UnregisterOld(reg, a) == reg \ {a}

\* Mutant of unregisterGlobalHotkeys: nothing is unregistered.
unregisterNothing(reg) == reg

\* globalShortcut.unregisterAll() (main.js:345-348).
unregisterGlobalHotkeys(reg) == {}

\* Mutant of ToggleMuteCallback: the notification goes to every open window.
ToggleMuteBroadcast(rcv, mw) ==
    [ w \in WinIds |-> IF wins[w] \in {"main", "settings"} THEN rcv[w] + 1
                       ELSE rcv[w] ]

\* The callback given to every register call (main.js:290-295, 316-321,
\* 331-335): one hotkey:toggle-mute to the main window, if there is one.
ToggleMuteCallback(rcv, mw) ==
    IF mw # NoWindow THEN [ rcv EXCEPT ![mw] = @ + 1 ] ELSE rcv

\* main.js:286-287  store.get('hotkey') || hotkeyToggleMute
StartupHotkey(st) == IF st.hotkey # NoAccel THEN st.hotkey ELSE hotkeyToggleMute

\* registerGlobalHotkeys (main.js:283-305): the registrations held afterwards.
\* A false return and a raised error are both only logged.
registerGlobalHotkeys(reg, st) ==
    AfterRegister(reg, StartupHotkey(st), RegisterOutcome(reg, StartupHotkey(st)))

(* ------------------------------------------------------------------ *)
(* The event loop                                                     *)
(* ------------------------------------------------------------------ *)

\* Mutant of Dispatchable: the handler yields between its calls (as it would
\* with an await between them), so other tasks run in between.
DispatchableAnytime == TRUE

\* A new task is dispatched only when the running handler has returned.  The
\* hotkey:update handler and updateGlobalHotkey contain no await, so the
\* handler runs from its first call to its return as one task.
Dispatchable == hk.pc = "idle"

\* A bridge call needs a live renderer: a window of this process.
RendererAlive == phase = "running" /\ OpenWins # {}

(* ------------------------------------------------------------------ *)
(* Application lifecycle                                              *)
(* ------------------------------------------------------------------ *)

\* app.whenReady().then(...) (main.js:526-531) in a fresh process: module
\* state is initial, the store is what the last run left on disk, and the
\* process holds no registration.
Launch ==
    /\ phase \in {"off", "quit"}
    /\ Dispatchable
    /\ FreshIds # {}
    /\ phase' = "running"
    /\ updater' = StartupUpdater(env)
    /\ IF CreateWindowThrows(store)
       THEN \* createWindow raises before it makes the window: the callback
            \* of whenReady ends there (main.js:567-569 logs the rejection).
            /\ UNCHANGED wins
            /\ mainWindow' = NoWindow
            /\ currentHotkey' = NoAccel
            /\ osReg' = {}
            /\ lastOp' = << "whenReady", "createWindow", "unhandledRejection" >>
            /\ nav' = "none"
            /\ geom' = NoGeom
       ELSE /\ wins' = [ wins EXCEPT ![NextId] = "main" ]
            /\ mainWindow' = NextId
            /\ currentHotkey' = StartupHotkey(store)
            /\ osReg' = registerGlobalHotkeys({}, store)
            /\ lastOp' = << "whenReady", "createWindow", "registerGlobalHotkeys" >>
            /\ nav' = "initial"
            /\ geom' = CreatedGeom(store)
    /\ settingsWindow' = NoWindow
    /\ settingsClosing' = FALSE
    /\ settingsPage' = PageIdle
    /\ hk' = HkIdle
    /\ errorInfo' = "null"
    /\ content' = "blank"
    /\ abortedLoads' = 0
    /\ inbox' = << >>
    /\ lastReceived' = NoneReceived
    /\ UNCHANGED << isDarwin, store, otherHeld, received, originUp, env >>

\* The origin loads: the navigations whose promise has the catch of
\* main.js:195-201 or main.js:502-509.
OriginLoads == {"initial", "retry"}

\* A navigation started in the main window, or the closing of the window,
\* abandons the navigation in flight; the loadURL promise of an abandoned
\* origin load is rejected later.  n counts the promises already abandoned.
StaleAfterNavigate(inflight, n) == IF inflight \in OriginLoads THEN n + 1 ELSE n

\* The process ends: its module state and its pending promises are gone.
ProcessExit ==
    /\ errorInfo' = "null"
    /\ abortedLoads' = 0
    /\ updater' = UpdaterOff
    /\ inbox' = << >>
    /\ lastReceived' = NoneReceived

\* What follows the 'closed' event of a window when winsAfter are the windows
\* left: with none left Electron emits window-all-closed (main.js:533-538),
\* whose handler unregisters and, off macOS, quits, which emits will-quit
\* (main.js:547-549).
AfterClosed(winsAfter, ops) ==
    LET left == { w \in WinIds : winsAfter[w] \in {"main", "settings"} } IN
    IF left = {}
    THEN /\ osReg' = unregisterGlobalHotkeys(osReg)
         /\ phase' = IF isDarwin THEN phase ELSE "quit"
         /\ lastOp' = IF isDarwin THEN ops \o << "window-all-closed" >>
                      ELSE ops \o << "window-all-closed", "will-quit" >>
    ELSE /\ UNCHANGED << osReg, phase >>
         /\ lastOp' = ops

\* The main window is closed (by the user, or window:close, main.js:396-398);
\* its 'closed' handler (main.js:222-224) clears mainWindow.
MainClosed ==
    /\ phase = "running"
    /\ Dispatchable
    /\ mainWindow # NoWindow
    /\ nav \in OriginLoads => abortedLoads < MaxStale
    /\ wins' = [ wins EXCEPT ![mainWindow] = "main.closed" ]
    /\ mainWindow' = NoWindow
    /\ received' = [ received EXCEPT ![mainWindow] = 0 ]
    /\ AfterClosed(wins', << "main.closed" >>)
    /\ hk' = HkIdle
    /\ content' = "blank"
    /\ nav' = "none"
    /\ IF phase' = "quit"
       THEN ProcessExit
       ELSE /\ abortedLoads' = StaleAfterNavigate(nav, abortedLoads)
            /\ errorInfo' = errorInfo
            /\ UNCHANGED << updater, inbox, lastReceived >>
    /\ originUp' = originUp
    /\ geom' = NoGeom
    /\ UNCHANGED << isDarwin, store, currentHotkey, otherHeld, settingsWindow,
                    settingsClosing, env, settingsPage >>

\* The settings window is closed (by the user, or after settings:close); its
\* 'closed' handler (main.js:264-267) clears settingsWindow.
SettingsClosed ==
    /\ phase = "running"
    /\ Dispatchable
    /\ settingsWindow # NoWindow
    /\ wins' = [ wins EXCEPT ![settingsWindow] = "settings.closed" ]
    /\ settingsWindow' = NoWindow
    /\ settingsClosing' = FALSE
    /\ settingsPage' = PageIdle
    /\ received' = [ received EXCEPT ![settingsWindow] = 0 ]
    /\ AfterClosed(wins', << "settings.closed" >>)
    /\ hk' = HkIdle
    /\ IF phase' = "quit"
       THEN ProcessExit
       ELSE UNCHANGED << errorInfo, abortedLoads, updater, inbox, lastReceived >>
    /\ UNCHANGED << content, nav, originUp, env, geom >>
    /\ UNCHANGED << isDarwin, store, currentHotkey, otherHeld, mainWindow >>

\* app.on('activate') (main.js:540-545), macOS only.
Activate ==
    /\ phase = "running"
    /\ isDarwin
    /\ Dispatchable
    /\ IF OpenWins = {} /\ CreateWindowThrows(store)
       THEN \* createWindow raises: the handler ends there (main.js:563-565
            \* logs the exception).
            /\ UNCHANGED << wins, mainWindow, currentHotkey, osReg, content,
                            nav, geom >>
            /\ lastOp' = << "activate", "createWindow", "uncaughtException" >>
       ELSE IF OpenWins = {}
       THEN /\ FreshIds # {}
            /\ wins' = [ wins EXCEPT ![NextId] = "main" ]
            /\ mainWindow' = NextId
            /\ currentHotkey' = StartupHotkey(store)
            /\ osReg' = registerGlobalHotkeys(osReg, store)
            /\ content' = "blank"
            /\ nav' = "initial"
            /\ geom' = CreatedGeom(store)
            /\ lastOp' = << "activate", "createWindow", "registerGlobalHotkeys" >>
       ELSE /\ UNCHANGED << wins, mainWindow, currentHotkey, osReg, content,
                            nav, geom >>
            /\ lastOp' = << "activate" >>
    /\ hk' = HkIdle
    /\ UNCHANGED << errorInfo, abortedLoads, originUp >>
    /\ UNCHANGED << env, updater, inbox, lastReceived, settingsPage >>
    /\ UNCHANGED << phase, isDarwin, store, otherHeld, settingsWindow,
                    settingsClosing, received >>

\* The application quits (Cmd+Q, the OS, app.quit()): Electron closes every
\* window without emitting window-all-closed, then emits will-quit
\* (main.js:547-549).
Quit ==
    /\ phase = "running"
    /\ Dispatchable
    /\ wins' = [ w \in WinIds |-> CASE wins[w] = "main"     -> "main.closed"
                                    [] wins[w] = "settings" -> "settings.closed"
                                    [] OTHER                -> wins[w] ]
    /\ mainWindow' = NoWindow
    /\ settingsWindow' = NoWindow
    /\ settingsClosing' = FALSE
    /\ settingsPage' = PageIdle
    /\ osReg' = unregisterGlobalHotkeys(osReg)
    /\ phase' = "quit"
    /\ received' = [ w \in WinIds |-> 0 ]
    /\ lastOp' = << "quit", "will-quit" >>
    /\ hk' = HkIdle
    /\ content' = "blank"
    /\ nav' = "none"
    /\ ProcessExit
    /\ originUp' = originUp
    /\ geom' = NoGeom
    /\ UNCHANGED << isDarwin, store, currentHotkey, otherHeld, env >>


(* ------------------------------------------------------------------ *)
(* Settings window (main.js:229-275, 421-429)                         *)
(* ------------------------------------------------------------------ *)

\* Mutant of SettingsWindowExists: the guard is missing.
SettingsWindowNeverExists(sw) == FALSE

\* The guard of createSettingsWindow (main.js:231): an existing settings
\* window is focused and returned instead of constructing a new one.
SettingsWindowExists(sw) == sw # NoWindow

\* ipcMain.on('settings:open') -> createSettingsWindow().
SettingsOpen ==
    /\ RendererAlive
    /\ Dispatchable
    /\ IF SettingsWindowExists(settingsWindow)
       THEN /\ UNCHANGED << wins, settingsWindow >>
            /\ lastOp' = << "settings:open", "focus" >>
       ELSE /\ FreshIds # {}
            /\ wins' = [ wins EXCEPT ![NextId] = "settings" ]
            /\ settingsWindow' = NextId
            /\ lastOp' = << "settings:open", "new BrowserWindow" >>
    /\ hk' = HkIdle
    /\ UNCHANGED connVars
    /\ UNCHANGED << phase, isDarwin, store, currentHotkey, osReg, otherHeld,
                    mainWindow, settingsClosing, received >>
    /\ UNCHANGED sideVars

\* ipcMain.on('settings:close'): settingsWindow.close() starts the close; the
\* window's 'closed' event (SettingsClosed) is a later task.
SettingsClose ==
    /\ RendererAlive
    /\ Dispatchable
    /\ settingsClosing' = (settingsClosing \/ settingsWindow # NoWindow)
    /\ lastOp' = << "settings:close" >>
    /\ hk' = HkIdle
    /\ UNCHANGED connVars
    /\ UNCHANGED << phase, isDarwin, store, currentHotkey, osReg, otherHeld,
                    wins, mainWindow, settingsWindow, received >>
    /\ UNCHANGED sideVars

(* ------------------------------------------------------------------ *)
(* Settings persistence (main.js:401-409)                             *)
(* ------------------------------------------------------------------ *)

\* ipcMain.handle('settings:set') for the key 'hotkey': store.set(key, value).
SettingsSetHotkey(v) ==
    /\ RendererAlive
    /\ Dispatchable
    /\ store' = [ store EXCEPT !.hotkey = v ]
    /\ lastOp' = << "settings:set", "hotkey" >>
    /\ hk' = HkIdle
    /\ UNCHANGED connVars
    /\ UNCHANGED << phase, isDarwin, currentHotkey, osReg, otherHeld, wins,
                    mainWindow, settingsWindow, settingsClosing, received >>
    /\ UNCHANGED sideVars

\* ipcMain.handle('settings:set') (main.js:405-409) for the other keys: the
\* handler has no try/catch, so a store.set that raises rejects the invoke.
SettingsSetHandler(key, v) ==
    /\ RendererAlive
    /\ Dispatchable
    /\ IF StoreSetThrows(v)
       THEN /\ store' = store
            /\ lastOp' = << "settings:set", "rejected" >>
       ELSE /\ store' = StoreWrite(store, key, v)
            /\ Cardinality(Dirty(store')) <= MaxDirty
            /\ lastOp' = << "settings:set", "ack" >>
    /\ hk' = HkIdle
    /\ UNCHANGED connVars
    /\ UNCHANGED << phase, isDarwin, currentHotkey, osReg, otherHeld, wins,
                    mainWindow, settingsWindow, settingsClosing, received >>
    /\ UNCHANGED << env, updater, geom, settingsPage >>

\* A settings:set request that is handled as it arrives.
SettingsSet(key, v) ==
    /\ SettingsSetHandler(key, v)
    /\ UNCHANGED queueVars

\* The keys of the requests in a queue.
KeysOf(q) == { q[i][1] : i \in DOMAIN q }

\* A settings:set request of a page arrives in the main process while other
\* requests wait: the event loop queues it behind them.
ReceiveSet(key, v) ==
    /\ RendererAlive
    /\ Len(inbox) < MaxInbox
    /\ Cardinality(Dirty(store) \cup KeysOf(inbox) \cup {key}) <= MaxDirty
    /\ inbox' = Append(inbox, << key, v >>)
    /\ lastReceived' = [ lastReceived EXCEPT
                             ![key] = [ value  |-> v,
                                        behind |-> key \in KeysOf(inbox) ] ]
    /\ lastOp' = << "ipc", "settings:set" >>
    /\ UNCHANGED connVars
    /\ UNCHANGED << phase, isDarwin, store, currentHotkey, osReg, otherHeld,
                    wins, mainWindow, settingsWindow, settingsClosing, received,
                    hk, env, updater, geom, settingsPage >>

\* Mutant of Oldest: the event loop takes the request that arrived last.
Newest(q) == Len(q)

\* The event loop takes its tasks in the order they were queued.
Oldest(q) == 1

\* The event loop runs the settings:set handler for the request it takes from
\* the queue; the handler is synchronous (main.js:405-409), so its answer is
\* sent before the next request is taken.
HandleSet ==
    /\ inbox # << >>
    /\ LET i == Oldest(inbox) IN
       /\ SettingsSetHandler(inbox[i][1], inbox[i][2])
       /\ inbox' = SubSeq(inbox, 1, i - 1) \o SubSeq(inbox, i + 1, Len(inbox))
    /\ UNCHANGED lastReceived

\* ipcMain.handle('settings:get') (main.js:401-403): answers
\* StoreGet(store, key).
SettingsGet(key) ==
    /\ RendererAlive
    /\ Dispatchable
    /\ lastOp' = << "settings:get" >>
    /\ hk' = HkIdle
    /\ UNCHANGED connVars
    /\ UNCHANGED << phase, isDarwin, store, currentHotkey, osReg, otherHeld,
                    wins, mainWindow, settingsWindow, settingsClosing,
                    received >>
    /\ UNCHANGED sideVars

\* ipcMain.handle('settings:getAll') (main.js:411-413): answers store.store,
\* whose keys are StoreAll(store).
SettingsGetAll ==
    /\ RendererAlive
    /\ Dispatchable
    /\ lastOp' = << "settings:getAll" >>
    /\ hk' = HkIdle
    /\ UNCHANGED connVars
    /\ UNCHANGED << phase, isDarwin, store, currentHotkey, osReg, otherHeld,
                    wins, mainWindow, settingsWindow, settingsClosing,
                    received >>
    /\ UNCHANGED sideVars

(* ------------------------------------------------------------------ *)
(* Hotkey trigger                                                     *)
(* ------------------------------------------------------------------ *)

\* The user presses an accelerator this process holds: the OS runs the
\* callback registered with it.
Trigger(a) ==
    /\ phase = "running"
    /\ Dispatchable
    /\ a \in osReg
    /\ \A w \in WinIds : received[w] < MaxTriggers
    /\ received' = ToggleMuteCallback(received, mainWindow)
    /\ lastOp' = << "trigger" >>
    /\ hk' = HkIdle
    /\ UNCHANGED connVars
    /\ UNCHANGED << phase, isDarwin, store, currentHotkey, osReg, otherHeld,
                    wins, mainWindow, settingsWindow, settingsClosing >>
    /\ UNCHANGED sideVars

(* ------------------------------------------------------------------ *)
(* hotkey:update (main.js:450-465) and updateGlobalHotkey (307-343)   *)
(* ------------------------------------------------------------------ *)

\* updateGlobalHotkey returned false, by its else branch or its catch; the
\* handler answers {success: false, error: 'Failed to register hotkey'}.
HkFailed(r) ==
    [ r EXCEPT !.pc = "idle", !.success = FALSE,
               !.error = "Failed to register hotkey" ]

\* The handler is entered and makes its first OS call (main.js:310-313):
\* unregister currentHotkey when there is one.  unregister raises on an
\* accelerator it cannot parse, which the catch turns into a false return.
HotkeyUpdateUnregister(h) ==
    /\ RendererAlive
    /\ Dispatchable
    /\ LET r == [ HkIdle EXCEPT !.new = h, !.old = currentHotkey,
                                !.startReg = osReg ]
       IN  IF currentHotkey # NoAccel /\ ~Parsable(currentHotkey)
           THEN /\ hk' = HkFailed([ r EXCEPT !.newOutcome = "notAttempted" ])
                /\ osReg' = osReg
           ELSE /\ hk' = [ r EXCEPT !.pc = "register" ]
                /\ osReg' = IF currentHotkey # NoAccel
                            THEN UnregisterOld(osReg, currentHotkey)
                            ELSE osReg
    /\ lastOp' = << "hotkey:update", "unregister" >>
    /\ UNCHANGED connVars
    /\ UNCHANGED << phase, isDarwin, store, currentHotkey, otherHeld, wins,
                    mainWindow, settingsWindow, settingsClosing, received >>
    /\ UNCHANGED sideVars

\* Mutant of CurrentAfterRegister: currentHotkey is never replaced.
CurrentNeverReplaced(cur, new, o) == cur

\* Mutant of CurrentAfterRegister: currentHotkey is replaced before the
\* result of register is looked at.
CurrentAlwaysReplaced(cur, new, o) == new

\* main.js:323-325: currentHotkey is replaced only when register returned true.
CurrentAfterRegister(cur, new, o) == IF o = "ok" THEN new ELSE cur

\* main.js:316-328: register the new accelerator.
HotkeyUpdateRegister ==
    /\ hk.pc = "register"
    /\ LET o == RegisterOutcome(osReg, hk.new) IN
       /\ osReg' = AfterRegister(osReg, hk.new, o)
       /\ currentHotkey' = CurrentAfterRegister(currentHotkey, hk.new, o)
       /\ hk' = LET r == [ hk EXCEPT !.newOutcome = o,
                                     !.heldByOther = (hk.new \in otherHeld) ]
                IN  CASE o = "ok"       -> [ r EXCEPT !.pc = "persist" ]
                      [] o = "declined" -> [ r EXCEPT !.pc = "rollback" ]
                      [] OTHER          -> HkFailed(r)
    /\ lastOp' = << "hotkey:update", "register" >>
    /\ UNCHANGED connVars
    /\ UNCHANGED << phase, isDarwin, store, otherHeld, wins, mainWindow,
                    settingsWindow, settingsClosing, received >>
    /\ UNCHANGED sideVars

\* main.js:329-337: the new accelerator was declined; register the old one
\* again when there is one, ignoring the result, and return false.
HotkeyUpdateRollback ==
    /\ hk.pc = "rollback"
    /\ LET o == IF currentHotkey # NoAccel
                THEN RegisterOutcome(osReg, currentHotkey)
                ELSE "notAttempted"
       IN  /\ osReg' = AfterRegister(osReg, currentHotkey, o)
           /\ hk' = HkFailed([ hk EXCEPT !.rollback = o ])
    /\ lastOp' = << "hotkey:update", "rollback" >>
    /\ UNCHANGED connVars
    /\ UNCHANGED << phase, isDarwin, store, currentHotkey, otherHeld, wins,
                    mainWindow, settingsWindow, settingsClosing, received >>
    /\ UNCHANGED sideVars

\* Mutant of PersistHotkey: the new accelerator is not written to the store.
PersistHotkeySkipped(st, h) == st

\* main.js:456  store.set('hotkey', newHotkey)
PersistHotkey(st, h) == [ st EXCEPT !.hotkey = h ]

\* main.js:455-457: updateGlobalHotkey returned true; persist and answer.
HotkeyUpdatePersist ==
    /\ hk.pc = "persist"
    /\ store' = PersistHotkey(store, hk.new)
    /\ hk' = [ hk EXCEPT !.pc = "idle", !.success = TRUE, !.error = "" ]
    /\ lastOp' = << "hotkey:update", "persist" >>
    /\ UNCHANGED connVars
    /\ UNCHANGED << phase, isDarwin, currentHotkey, osReg, otherHeld, wins,
                    mainWindow, settingsWindow, settingsClosing, received >>
    /\ UNCHANGED sideVars

(* ------------------------------------------------------------------ *)
(* microphone:update (main.js:468-485) and the settings page's        *)
(* saveSettings (settings.js:332-372)                                 *)
(* ------------------------------------------------------------------ *)

\* The label of the microphone the page has selected.
MicLabel == "'USB Mic'"

\* ipcMain.handle('microphone:update'): store.set('selectedMicrophone',
\* deviceLabel) inside try, then microphone:changed to the main window.
MicrophoneUpdate(label) ==
    /\ RendererAlive
    /\ Dispatchable
    /\ IF StoreSetThrows(label)
       THEN /\ store' = store
            /\ lastOp' = << "microphone:update", "error" >>
       ELSE /\ store' = StoreWrite(store, "selectedMicrophone", label)
            /\ Cardinality(Dirty(store')) <= MaxDirty
            /\ lastOp' = << "microphone:update", "success" >>
    /\ hk' = HkIdle
    /\ UNCHANGED connVars
    /\ UNCHANGED << phase, isDarwin, currentHotkey, osReg, otherHeld, wins,
                    mainWindow, settingsWindow, settingsClosing, received >>
    /\ UNCHANGED sideVars

\* settings.js:212-216  isValidHotkey: hotkey.split('+').length >= 2
isValidHotkey(h) == Len(h) >= 2

\* The main process has answered the request saveSettings awaits: its
\* handler was the last task there.
Answered ==
    CASE settingsPage.pc = "setHotkey"
             -> lastOp = << "settings:set", "hotkey" >>
      [] settingsPage.pc = "updateHotkey"
             -> /\ hk.pc = "idle"
                /\ Len(lastOp) = 2
                /\ lastOp[1] = "hotkey:update"
      [] settingsPage.pc = "setMicrophone"
             -> Len(lastOp) = 2 /\ lastOp[1] = "settings:set"
                                /\ lastOp[2] \in { "ack", "rejected" }
      [] settingsPage.pc = "updateMicrophone"
             -> Len(lastOp) = 2 /\ lastOp[1] = "microphone:update"
      [] OTHER -> FALSE

\* The settings page is displayed and its script runs.
PageLive == phase = "running" /\ settingsWindow # NoWindow

\* What a step of the page's script leaves alone: everything of the main
\* process.
PageFrame ==
    /\ UNCHANGED connVars
    /\ UNCHANGED << phase, isDarwin, store, currentHotkey, osReg, otherHeld,
                    wins, mainWindow, settingsWindow, settingsClosing, received,
                    hk, lastOp, env, updater, geom, inbox, lastReceived >>

\* settings.js:332-346  the user clicks Save with the hotkey h recorded: an
\* invalid hotkey is refused with a message, otherwise the page calls
\* setSetting('hotkey', h) and awaits it.
SaveClick(h) ==
    /\ PageLive
    /\ settingsPage.pc = "idle"
    /\ settingsPage' =
           IF ~isValidHotkey(h)
           THEN [ settingsPage EXCEPT !.hotkeyStatus = "invalid" ]
           ELSE [ settingsPage EXCEPT !.pc = "setHotkey", !.hotkey = h,
                                      !.answer = "none" ]
    /\ PageFrame

\* The handlers saveSettings calls, each run by the main process when the
\* page awaits it.
SaveCallSetHotkey ==
    /\ settingsPage.pc = "setHotkey"
    /\ ~Answered
    /\ SettingsSetHotkey(settingsPage.hotkey)

SaveCallUpdateHotkey ==
    /\ settingsPage.pc = "updateHotkey"
    /\ ~Answered
    /\ HotkeyUpdateUnregister(settingsPage.hotkey)

SaveCallSetMicrophone ==
    /\ settingsPage.pc = "setMicrophone"
    /\ ~Answered
    /\ SettingsSet("selectedMicrophone", MicLabel)

SaveCallUpdateMicrophone ==
    /\ settingsPage.pc = "updateMicrophone"
    /\ ~Answered
    /\ MicrophoneUpdate(MicLabel)

\* settings.js:347-356  the value updateHotkey resolves with is dropped, and
\* the page shows 'Settings saved successfully!' for the hotkey.
ShownAfterSave(answer) == "saved"

\* settings.js:346-372  saveSettings goes on after an await: a rejected
\* invoke ends it in the catch, which shows 'Failed to save settings'; after
\* the last call the page shows its success status.  answer keeps what
\* hotkey:update resolved with.
SaveResumes ==
    /\ PageLive
    /\ Answered
    /\ settingsPage' =
           CASE settingsPage.pc = "setHotkey"
                    -> [ settingsPage EXCEPT !.pc = "updateHotkey" ]
             [] settingsPage.pc = "updateHotkey"
                    -> [ settingsPage EXCEPT
                             !.pc = "setMicrophone",
                             !.answer = IF hk.success THEN "success"
                                        ELSE "failure" ]
             [] settingsPage.pc = "setMicrophone"
                    -> IF lastOp[2] = "rejected"
                       THEN [ settingsPage EXCEPT !.pc = "idle",
                                                  !.hotkeyStatus = "failed" ]
                       ELSE [ settingsPage EXCEPT !.pc = "updateMicrophone" ]
             [] settingsPage.pc = "updateMicrophone"
                    -> [ settingsPage EXCEPT
                             !.pc = "idle",
                             !.hotkeyStatus = ShownAfterSave(settingsPage.answer) ]
    /\ PageFrame

(* ------------------------------------------------------------------ *)
(* Connection supervisor (main.js:193-201, 488-520)                   *)
(* ------------------------------------------------------------------ *)

\* The message of a load rejected because the origin cannot be reached, and of
\* a load rejected because it was abandoned: a later navigation of the same
\* window superseded it, or its window was closed.
ErrRefused == "ERR_CONNECTION_REFUSED"

ErrAborted == "ERR_ABORTED"

\* Mutant of CapturedMessage: the message is not captured.
CapturedNothing(msg) == "null"

\* main.js:197, 504  errorInfo = { message: err.message }
CapturedMessage(msg) == msg

\* main.js:488-490  errorInfo || { message: 'Unknown error' }
getErrorDetails(ei) == IF ei = "null" THEN "Unknown error" ELSE ei

\* Mutant of RetryWindowMissing: the guard is missing.
RetryWindowNeverMissing(mw) == FALSE

\* main.js:496  !mainWindow || mainWindow.isDestroyed(); mainWindow is
\* cleared by the 'closed' handler, so a destroyed window is a null one.
RetryWindowMissing(mw) == mw = NoWindow

\* Mutant of ClearedErrorInfo: the retry keeps the captured message.
KeptErrorInfo(ei) == ei

\* main.js:513  errorInfo = null
ClearedErrorInfo(ei) == "null"

\* The catch of main.js:195-201 and 502-509 run for a promise rejected with
\* msg: capture the message and load error.html into whatever mainWindow is
\* now.  With mainWindow null the loadFile call raises inside the catch, which
\* is logged as an unhandled rejection.  inflight is the navigation the window
\* is performing when the catch runs and pending the number of abandoned
\* promises besides this one.
LoadCatch(msg, inflight, pending) ==
    /\ errorInfo' = CapturedMessage(msg)
    /\ IF mainWindow # NoWindow
       THEN /\ nav' = "error"
            /\ abortedLoads' = StaleAfterNavigate(inflight, pending)
       ELSE /\ nav' = nav
            /\ abortedLoads' = pending

\* Every action of this section leaves the hotkey and window state alone.
ConnFrame ==
    /\ hk' = HkIdle
    /\ UNCHANGED << phase, isDarwin, store, currentHotkey, osReg, otherHeld,
                    wins, mainWindow, settingsWindow, settingsClosing,
                    received >>

\* The origin load in flight finishes: the promise resolves.
LoadSucceeds ==
    /\ phase = "running"
    /\ Dispatchable
    /\ nav \in OriginLoads
    /\ originUp
    /\ content' = "origin"
    /\ nav' = "none"
    /\ lastOp' = << "did-finish-load", nav >>
    /\ ConnFrame
    /\ UNCHANGED << errorInfo, abortedLoads, originUp >>
    /\ UNCHANGED sideVars

\* The origin load in flight fails: the window shows nothing of the
\* application, the promise is rejected and its catch runs.
LoadFails ==
    /\ phase = "running"
    /\ Dispatchable
    /\ nav \in OriginLoads
    /\ ~originUp
    /\ content' = "blank"
    /\ LoadCatch(ErrRefused, "none", abortedLoads)
    /\ lastOp' = << "loadURL.catch", nav, ErrRefused >>
    /\ ConnFrame
    /\ UNCHANGED << originUp >>
    /\ UNCHANGED sideVars

\* loadFile('error.html') finishes.
ErrorPageLoaded ==
    /\ phase = "running"
    /\ Dispatchable
    /\ nav = "error"
    /\ content' = "error"
    /\ nav' = "none"
    /\ lastOp' = << "did-finish-load", "error" >>
    /\ ConnFrame
    /\ UNCHANGED << errorInfo, abortedLoads, originUp >>
    /\ UNCHANGED sideVars

\* The promise of an abandoned origin load is rejected with ERR_ABORTED and
\* its catch runs.
AbortedLoadRejects ==
    /\ phase = "running"
    /\ Dispatchable
    /\ abortedLoads > 0
    /\ LoadCatch(ErrAborted, nav, abortedLoads - 1)
    /\ lastOp' = << "loadURL.catch", "abandoned", ErrAborted >>
    /\ ConnFrame
    /\ UNCHANGED << content, originUp >>
    /\ UNCHANGED sideVars

\* ipcMain.handle('error:retry') (main.js:492-520).
ErrorRetry ==
    /\ RendererAlive
    /\ Dispatchable
    /\ IF RetryWindowMissing(mainWindow)
       THEN /\ lastOp' = << "error:retry", "failure", "Window destroyed" >>
            /\ UNCHANGED << errorInfo, nav, abortedLoads >>
       ELSE /\ nav \in OriginLoads => abortedLoads < MaxStale
            /\ nav' = "retry"
            /\ abortedLoads' = StaleAfterNavigate(nav, abortedLoads)
            /\ errorInfo' = ClearedErrorInfo(errorInfo)
            /\ lastOp' = << "error:retry", "success", "" >>
    /\ ConnFrame
    /\ UNCHANGED << content, originUp >>
    /\ UNCHANGED sideVars

\* ipcMain.handle('error:getDetails') (main.js:488-490).
ErrorGetDetails ==
    /\ RendererAlive
    /\ Dispatchable
    /\ lastOp' = << "error:getDetails", getErrorDetails(errorInfo) >>
    /\ ConnFrame
    /\ UNCHANGED connVars
    /\ UNCHANGED sideVars

\* The remote origin becomes reachable or unreachable.
OriginToggle ==
    /\ originUp' = ~originUp
    /\ UNCHANGED << phase, isDarwin, store, currentHotkey, osReg, otherHeld,
                    wins, mainWindow, settingsWindow, settingsClosing,
                    received, hk, lastOp, errorInfo, content, nav,
                    abortedLoads >>
    /\ UNCHANGED sideVars

(* ------------------------------------------------------------------ *)
(* Environment: other processes                                       *)
(* ------------------------------------------------------------------ *)

\* Another process registers an accelerator nobody holds.
OtherGrab(a) ==
    /\ Parsable(a)
    /\ a \notin (osReg \cup otherHeld)
    /\ otherHeld' = otherHeld \cup {a}
    /\ UNCHANGED connVars
    /\ UNCHANGED << phase, isDarwin, store, currentHotkey, osReg, wins,
                    mainWindow, settingsWindow, settingsClosing, received, hk,
                    lastOp >>
    /\ UNCHANGED sideVars

\* Another process releases an accelerator it holds.
OtherRelease(a) ==
    /\ a \in otherHeld
    /\ otherHeld' = otherHeld \ {a}
    /\ UNCHANGED connVars
    /\ UNCHANGED << phase, isDarwin, store, currentHotkey, osReg, wins,
                    mainWindow, settingsWindow, settingsClosing, received, hk,
                    lastOp >>
    /\ UNCHANGED sideVars

(* ------------------------------------------------------------------ *)
(* Bridge between the pages and the main process (preload.js)         *)
(* ------------------------------------------------------------------ *)

\* preload.js:9-43  the functions of window.electronAPI, each with the
\* channel it sends on, invokes or listens to.
electronAPI ==
    [ getAppVersion       |-> "app:getVersion",
      minimizeWindow      |-> "window:minimize",
      maximizeWindow      |-> "window:maximize",
      closeWindow         |-> "window:close",
      getSetting          |-> "settings:get",
      setSetting          |-> "settings:set",
      getAllSettings      |-> "settings:getAll",
      openSettings        |-> "settings:open",
      closeSettings       |-> "settings:close",
      getAudioDevices     |-> "audio:getDevices",
      updateHotkey        |-> "hotkey:update",
      updateMicrophone    |-> "microphone:update",
      onMicrophoneChanged |-> "microphone:changed",
      log                 |-> "log" ]

\* preload.js:49-69  the functions of window.electronHotkeys.
electronHotkeys ==
    [ onToggleMute             |-> "hotkey:toggle-mute",
      removeToggleMuteListener |-> "hotkey:toggle-mute" ]

\* The channels the main process sends on (main.js:293, 319, 333, 477): a
\* page listens to them, it cannot call the main process through them.
NotificationChannels == { "hotkey:toggle-mute", "microphone:changed" }

\* The channels a page can send on or invoke through the exposed objects.
SurfaceChannels ==
    ( { electronAPI[f] : f \in DOMAIN electronAPI }
      \cup { electronHotkeys[f] : f \in DOMAIN electronHotkeys } )
    \ NotificationChannels

\* main.js:355-520  the channels with an ipcMain.handle or ipcMain.on.
HandledChannels ==
    { "app:getVersion", "app:checkForUpdates",
      "window:minimize", "window:maximize", "window:close",
      "settings:get", "settings:set", "settings:getAll", "log",
      "settings:open", "settings:close", "audio:getDevices",
      "hotkey:update", "microphone:update",
      "error:getDetails", "error:retry" }

\* The functions of window.electronAPI the local pages call: the error page
\* (its script, lines 12, 27, 44) and the settings page (settings.js:39-363).
PageCalls ==
    [ error    |-> { "getErrorDetails", "retryBackendConnection",
                     "closeWindow" },
      settings |-> { "getSetting", "getAppVersion", "closeSettings",
                     "checkForUpdates", "setSetting", "updateHotkey",
                     "updateMicrophone" } ]

\* The page is displayed by a window of the running application.
PageDisplayed(page) ==
    /\ phase = "running"
    /\ IF page = "error"
       THEN mainWindow # NoWindow /\ content = "error"
       ELSE settingsWindow # NoWindow

\* What window.electronAPI.fn() does: a TypeError in the page when the object
\* has no such function (contextIsolation leaves the page no other way to the
\* main process), else a message on the function's channel, which reaches a
\* handler when the main process has one.
Reached(fn) ==
    IF fn \notin DOMAIN electronAPI THEN "TypeError"
    ELSE IF electronAPI[fn] \in HandledChannels THEN electronAPI[fn]
    ELSE "no handler"

\* A page's script calls window.electronAPI.fn().
PageCall(page, fn) ==
    /\ PageDisplayed(page)
    /\ Dispatchable
    /\ fn \in PageCalls[page]
    /\ lastOp' = << "electronAPI", fn, Reached(fn) >>
    /\ UNCHANGED connVars
    /\ UNCHANGED << phase, isDarwin, store, currentHotkey, osReg, otherHeld,
                    wins, mainWindow, settingsWindow, settingsClosing,
                    received, hk >>
    /\ UNCHANGED sideVars

(* ------------------------------------------------------------------ *)
(* Main window geometry (main.js:174-185)                             *)
(* ------------------------------------------------------------------ *)

\* The body of the 'resize' and 'moved' handlers (main.js:175-177, 181-183)
\* for a window in geometry g: the store afterwards.
SaveBounds(st, g) ==
    IF ~g.maximized THEN StoreWrite(st, "windowBounds", g.bounds) ELSE st

\* What the geometry handlers leave alone.
GeomFrame ==
    /\ hk' = HkIdle
    /\ UNCHANGED connVars
    /\ UNCHANGED << phase, isDarwin, currentHotkey, osReg, otherHeld, wins,
                    mainWindow, settingsWindow, settingsClosing, received,
                    env, updater, inbox, lastReceived, settingsPage >>

\* The user resizes or moves the main window to the rectangle r: the window
\* emits 'resize' when its size changed and 'moved' when only its place did.
MainResized(r) ==
    /\ phase = "running"
    /\ Dispatchable
    /\ mainWindow # NoWindow
    /\ ~geom.maximized
    /\ r # geom.bounds
    /\ geom' = [ geom EXCEPT !.bounds = r ]
    /\ store' = SaveBounds(store, geom')
    /\ lastOp' = << IF SizeOf(r) = SizeOf(geom.bounds) THEN "moved"
                    ELSE "resize" >>
    /\ GeomFrame

\* The user maximizes the main window: it emits 'resize' while isMaximized()
\* already answers true.
Maximize ==
    /\ phase = "running"
    /\ Dispatchable
    /\ mainWindow # NoWindow
    /\ ~geom.maximized
    /\ geom' = [ geom EXCEPT !.maximized = TRUE ]
    /\ store' = SaveBounds(store, geom')
    /\ lastOp' = << "resize" >>
    /\ GeomFrame

\* The user restores the maximized main window: it emits 'resize' with its
\* normal bounds back.
Unmaximize ==
    /\ phase = "running"
    /\ Dispatchable
    /\ mainWindow # NoWindow
    /\ geom.maximized
    /\ geom' = [ geom EXCEPT !.maximized = FALSE ]
    /\ store' = SaveBounds(store, geom')
    /\ lastOp' = << "resize" >>
    /\ GeomFrame

(* ------------------------------------------------------------------ *)
(* Update coordinator (main.js:103-145, 359-379)                      *)
(* ------------------------------------------------------------------ *)

\* The checks the timer and the manual requests started in this run.
ChecksAsked == updater.timerChecks + updater.manualChecks

\* The callback of setInterval (main.js:141-144) after an hour has elapsed:
\* autoUpdater.checkForUpdatesAndNotify().
HourlyCheck ==
    /\ phase = "running"
    /\ Dispatchable
    /\ updater.timer
    /\ ChecksAsked < MaxChecks
    /\ updater' = [ updater EXCEPT !.timerChecks = @ + 1 ]
    /\ lastOp' = << "setInterval", "checkForUpdatesAndNotify" >>
    /\ hk' = HkIdle
    /\ UNCHANGED connVars
    /\ UNCHANGED << phase, isDarwin, store, currentHotkey, osReg, otherHeld,
                    wins, mainWindow, settingsWindow, settingsClosing, received,
                    env, geom, inbox, lastReceived, settingsPage >>

\* Mutant of ManualSkip: the posture is looked at before the flag.
ManualSkipDevFirst(e) ==
    IF isDev(e) THEN "dev"
    ELSE IF ~autoUpdateEnabled(e) THEN "disabled"
    ELSE "none"

\* main.js:360-368  the early returns of app:checkForUpdates: the reason it
\* returns with, "none" when it goes on.
ManualSkip(e) ==
    IF ~autoUpdateEnabled(e) THEN "disabled"
    ELSE IF isDev(e) THEN "dev"
    ELSE "none"

\* The ways autoUpdater.checkForUpdatesAndNotify() ends: its promise is
\* fulfilled, its promise is rejected, or the call itself raises.
CheckOutcomes == { "fulfilled", "rejected", "raised" }

\* Mutant of ManualResult: there is no catch, a failure rejects the invoke.
ManualResultUncaught(outcome) ==
    IF outcome = "fulfilled" THEN "success" ELSE "invoke rejected"

\* main.js:370-378  try { ...; return { success: true } } catch (error)
\* { return { success: false, reason: 'error', message: error.message } }
ManualResult(outcome) ==
    IF outcome = "fulfilled" THEN "success" ELSE "error"

\* ipcMain.handle('app:checkForUpdates') (main.js:359-379), the check ending
\* with outcome.  The handler's continuation after its await only builds the
\* result, so the handler is one step.
CheckForUpdates(outcome) ==
    /\ RendererAlive
    /\ Dispatchable
    /\ IF ManualSkip(env) # "none"
       THEN /\ updater' = updater
            /\ lastOp' = << "app:checkForUpdates", ManualSkip(env) >>
       ELSE /\ ChecksAsked < MaxChecks
            /\ updater' = [ initAutoUpdater(updater)
                                 EXCEPT !.manualChecks = @ + 1 ]
            /\ lastOp' = << "app:checkForUpdates", ManualResult(outcome),
                            outcome >>
    /\ hk' = HkIdle
    /\ UNCHANGED connVars
    /\ UNCHANGED << phase, isDarwin, store, currentHotkey, osReg, otherHeld,
                    wins, mainWindow, settingsWindow, settingsClosing, received,
                    env, geom, inbox, lastReceived, settingsPage >>

(* ------------------------------------------------------------------ *)
(* Navigation guard of the main window (main.js:208-214)              *)
(* ------------------------------------------------------------------ *)

\* A URL is the sequence of the pieces of its text, so that one text starts
\* with another exactly when its sequence starts with the other's.
\* main.js:20  the configured remote origin (no trailing slash).
backendUrl == << "https://", "voiceapp.nuzk-server.com" >>

\* The targets a page may navigate to: a page of the origin, a page of a host
\* whose name begins with the configured host, and a page of another host.
NavTargets ==
    { backendUrl \o << "/", "rooms" >>,
      backendUrl \o << ".evil.example", "/", "rooms" >>,
      << "https://", "evil.example", "/", "rooms" >> }

\* String.prototype.startsWith
StartsWith(u, p) == Len(u) >= Len(p) /\ SubSeq(u, 1, Len(p)) = p

\* The origin of a URL: its text up to the path.
RECURSIVE OriginOf(_)
OriginOf(u) ==
    IF u = << >> \/ Head(u) = "/" THEN << >>
    ELSE << Head(u) >> \o OriginOf(Tail(u))

\* main.js:209  !url.startsWith(backendUrl): event.preventDefault()
NavigationBlocked(url) == ~StartsWith(url, backendUrl)

\* The 'will-navigate' handler for an in-page navigation to url started by
\* the page the main window displays; a navigation that is not prevented
\* replaces the page.
WillNavigate(url) ==
    /\ phase = "running"
    /\ Dispatchable
    /\ mainWindow # NoWindow
    /\ nav = "none"
    /\ content \in { "origin", "foreign" }
    /\ IF NavigationBlocked(url)
       THEN /\ content' = content
            /\ lastOp' = << "will-navigate", "prevented" >>
       ELSE /\ content' = IF OriginOf(url) = OriginOf(backendUrl)
                          THEN "origin" ELSE "foreign"
            /\ lastOp' = << "will-navigate", "allowed" >>
    /\ ConnFrame
    /\ UNCHANGED << errorInfo, nav, abortedLoads, originUp >>
    /\ UNCHANGED sideVars

(* ------------------------------------------------------------------ *)
(* Specification                                                      *)
(* ------------------------------------------------------------------ *)

Next ==
    \/ Launch
    \/ MainClosed
    \/ SettingsClosed
    \/ Activate
    \/ Quit
    \/ SettingsOpen
    \/ SettingsClose
    \/ \E v \in Accels : SettingsSetHotkey(v)
    \/ \E a \in Accels : Trigger(a)
    \/ \E h \in Accels : HotkeyUpdateUnregister(h)
    \/ HotkeyUpdateRegister
    \/ HotkeyUpdateRollback
    \/ HotkeyUpdatePersist
    \/ \E a \in Accels : OtherGrab(a)
    \/ \E a \in Accels : OtherRelease(a)

\* The hotkey manager, the windows and the lifecycle.  No action of Next reads
\* a variable of connVars, and the connection supervisor's actions leave the
\* hotkey state alone, so the supervisor is checked under ConnSpec.
Spec == Init /\ [][Next]_vars

\* The connection supervisor, the pages' calls, the windows and the lifecycle.
ConnNext ==
    \/ Launch
    \/ MainClosed
    \/ SettingsClosed
    \/ Activate
    \/ Quit
    \/ SettingsOpen
    \/ SettingsClose
    \/ LoadSucceeds
    \/ LoadFails
    \/ ErrorPageLoaded
    \/ AbortedLoadRejects
    \/ ErrorRetry
    \/ ErrorGetDetails
    \/ OriginToggle
    \/ \E page \in DOMAIN PageCalls : \E fn \in PageCalls[page] : PageCall(page, fn)

ConnSpec == Init /\ [][ConnNext]_vars

\* The settings store behind its three handlers, across runs of the process.
StoreNext ==
    \/ Launch
    \/ Quit
    \/ \E key \in JsKeys : \E v \in JsValues : SettingsSet(key, v)
    \/ \E v \in Accels : SettingsSetHotkey(v)
    \/ \E key \in StoreKeys : SettingsGet(key)
    \/ SettingsGetAll

StoreSpec == Init /\ [][StoreNext]_vars

\* hotkey:update takes any string: the accelerators of Accels and one without
\* a modifier, which Electron registers like any other.
RequestedAccels == Accels \cup { << "X" >> }

\* The hotkey manager alone, fed every accelerator a page may send.
RebindNext ==
    \/ Launch
    \/ Quit
    \/ \E h \in RequestedAccels : HotkeyUpdateUnregister(h)
    \/ HotkeyUpdateRegister
    \/ HotkeyUpdateRollback
    \/ HotkeyUpdatePersist
    \/ \E a \in Accels : OtherGrab(a)
    \/ \E a \in Accels : OtherRelease(a)

RebindSpec == Init /\ [][RebindNext]_vars

\* The settings page saving its settings, while other processes take and
\* release accelerators.
SaveNext ==
    \/ Launch
    \/ Quit
    \/ SettingsOpen
    \/ SettingsClose
    \/ SettingsClosed
    \/ \E h \in RequestedAccels : SaveClick(h)
    \/ SaveCallSetHotkey
    \/ SaveCallUpdateHotkey
    \/ HotkeyUpdateRegister
    \/ HotkeyUpdateRollback
    \/ HotkeyUpdatePersist
    \/ SaveCallSetMicrophone
    \/ SaveCallUpdateMicrophone
    \/ SaveResumes
    \/ \E a \in Accels : OtherGrab(a)
    \/ \E a \in Accels : OtherRelease(a)

SaveSpec == Init /\ [][SaveNext]_vars

\* The settings:set requests of the pages in the event loop's queue.
QueueNext ==
    \/ Launch
    \/ Quit
    \/ \E key \in QueuedKeys : \E v \in JsValues : ReceiveSet(key, v)
    \/ HandleSet

QueueSpec == Init /\ [][QueueNext]_vars

\* The main window's geometry and the windowBounds setting, across runs.
BoundsNext ==
    \/ Launch
    \/ MainClosed
    \/ Activate
    \/ Quit
    \/ \E r \in Rects : MainResized(r)
    \/ Maximize
    \/ Unmaximize
    \/ \E v \in JsValues : SettingsSet("windowBounds", v)

BoundsSpec == Init /\ [][BoundsNext]_vars

\* The update coordinator in every environment.
UpdNext ==
    \/ Launch
    \/ MainClosed
    \/ Activate
    \/ Quit
    \/ HourlyCheck
    \/ \E outcome \in CheckOutcomes : CheckForUpdates(outcome)

UpdSpec == EnvInit /\ [][UpdNext]_vars

\* The main window's page and its in-page navigations.
NavNext ==
    \/ Launch
    \/ MainClosed
    \/ Activate
    \/ Quit
    \/ LoadSucceeds
    \/ LoadFails
    \/ ErrorPageLoaded
    \/ AbortedLoadRejects
    \/ OriginToggle
    \/ \E url \in NavTargets : WillNavigate(url)

NavSpec == Init /\ [][NavNext]_vars

\* A navigation in flight ends and a rejected promise's catch is run: Chromium
\* settles every load and the event loop runs every queued callback.
ConnLive ==
    /\ ConnSpec
    /\ WF_vars(LoadSucceeds)
    /\ WF_vars(LoadFails)
    /\ WF_vars(ErrorPageLoaded)
    /\ WF_vars(AbortedLoadRejects)


(* ------------------------------------------------------------------ *)
(* Claims                                                             *)
(* ------------------------------------------------------------------ *)

\* A hotkey:update request was the last task and has returned.
JustUpdated ==
    /\ hk.pc = "idle"
    /\ Len(lastOp) = 2
    /\ lastOp[1] = "hotkey:update"

\* The last task ran the handler named op.
Ran(op) == \E i \in 1..Len(lastOp) : lastOp[i] = op

SettingsWins(ws) == { w \in WinIds : ws[w] = "settings" }

\* C1: in every reachable state, between and inside operations, this
\* application holds 0 or 1 accelerators registered with the OS, never 2.
C1_AtMostOneRegistration == Cardinality(osReg) <= 1

\* C1 witness: a rebind from the default to Alt+X has completed, so both
\* accelerators have been registered by this process in this behaviour.
C1_Witness ==
    /\ JustUpdated
    /\ hk.success
    /\ hk.startReg = { hotkeyToggleMute }
    /\ osReg = { << "Alt", "X" >> }

\* C2 (as claimed): when a hotkey:update request finds the original
\* accelerator registered and the registration of the requested one fails
\* (declined by the OS or raising an error), the answer is success=false with
\* an error detail and the original accelerator is registered afterwards.
C2_FailedRebindKeepsOriginal ==
    ( /\ JustUpdated
      /\ hk.startReg = { hk.old }
      /\ hk.newOutcome \in {"declined", "throw"} )
    => ( /\ hk.success = FALSE
         /\ hk.error # ""
         /\ osReg = { hk.old } )

\* C3 (as claimed): outside the execution of a rebind, whenever an accelerator
\* is registered it equals the stored 'hotkey' setting, or the configured
\* default when none is stored.
C3_StoredEqualsRegistered ==
    ( /\ phase = "running"
      /\ hk.pc = "idle"
      /\ osReg # {} )
    => osReg = { StartupHotkey(store) }

C5_ZeroOnlyAfterFailedRollback ==
    ( /\ JustUpdated
      /\ hk.startReg # {}
      /\ osReg = {} )
    => ( /\ hk.newOutcome \in {"declined", "throw"}
         /\ hk.rollback \in {"declined", "throw"} )

\* C6: while a hotkey:update request is between its first call and its
\* return, the only task of this process that runs is the next call of that
\* same request: no other request begins and no other handler or trigger
\* callback runs (other processes may act).
C6_RebindNotInterleaved ==
    [][ hk.pc # "idle" =>
          \/ UNCHANGED << phase, isDarwin, store, currentHotkey, osReg, wins,
                          mainWindow, settingsWindow, settingsClosing,
                          received, hk, lastOp, errorInfo, content, nav,
                          abortedLoads >>
          \/ /\ lastOp'[1] = "hotkey:update"
             /\ lastOp'[2] \in {"register", "rollback", "persist"}
             /\ hk'.new = hk.new
             /\ hk'.old = hk.old
             /\ hk'.startReg = hk.startReg ]_vars

\* C6 witness: the intermediate state exists: the old accelerator has been
\* unregistered and the new one is not registered.
C6_Witness ==
    /\ hk.pc = "rollback"
    /\ hk.startReg = { hotkeyToggleMute }
    /\ osReg = {}

\* C7: a trigger adds exactly one hotkey:toggle-mute to the main window and
\* none to any other window when a main window exists, and adds nothing
\* anywhere when there is none; a window not yet created has nothing addressed
\* to it.
C7_TriggerNotifiesMainOnly ==
    [][ /\ \A w \in WinIds : wins'[w] = "none" => received'[w] = 0
        /\ ( lastOp' = << "trigger" >> /\ otherHeld' = otherHeld )
           => IF mainWindow # NoWindow
              THEN received' = [ received EXCEPT ![mainWindow] = @ + 1 ]
              ELSE received' = received ]_vars

\* C7 witness: a trigger was delivered to the main window while a settings
\* window was open.
C7_Witness ==
    /\ lastOp = << "trigger" >>
    /\ mainWindow # NoWindow
    /\ settingsWindow # NoWindow
    /\ received[mainWindow] >= 1

\* C8: after a task that handled window-all-closed or will-quit, the
\* application holds no registration.
C8_UnregisteredAfterAllClosedOrQuit ==
    ( Ran("window-all-closed") \/ Ran("will-quit") ) => osReg = {}

\* C8 witness: all windows closed after the hotkey had been rebound to Alt+X.
C8_Witness ==
    /\ Ran("window-all-closed")
    /\ currentHotkey = << "Alt", "X" >>
    /\ store.hotkey = << "Alt", "X" >>
    /\ otherHeld = {}

\* C9 (as claimed): no state has the process running, the main window absent
\* and an accelerator still registered.
C9_NoHotkeyWithoutMainWindow ==
    ~( /\ phase = "running"
       /\ mainWindow = NoWindow
       /\ osReg # {} )

\* C10: at most one settings window exists at any time; a settings:open
\* while one exists creates no window, and a settings:open while none exists
\* (initially, or after the 'closed' event of the last one) creates exactly
\* one.
C10_SingleSettingsWindow ==
    [][ /\ Cardinality(SettingsWins(wins')) <= 1
        /\ ( /\ Len(lastOp') >= 1
             /\ lastOp'[1] = "settings:open"
             /\ otherHeld' = otherHeld )
           => IF SettingsWins(wins) # {}
              THEN wins' = wins
              ELSE /\ Cardinality({ w \in WinIds : wins'[w] # wins[w] }) = 1
                   /\ Cardinality(SettingsWins(wins')) = 1 ]_vars

\* C10 witness: a settings window was opened after an earlier one was closed.
C10_Witness ==
    /\ Ran("new BrowserWindow")
    /\ settingsWindow # NoWindow
    /\ \E w \in WinIds : wins[w] = "settings.closed"

(* ------------------------------------------------------------------ *)
(* Claims about the connection supervisor, checked under ConnSpec     *)
(* ------------------------------------------------------------------ *)

\* The step is a task of the application that ended with the handlers ops,
\* not a step of the environment (which leaves lastOp as it was).
TaskRan(ops) == lastOp' = ops /\ originUp' = originUp /\ otherHeld' = otherHeld

\* C11: when the initial load of the origin fails, errorInfo becomes the load
\* error's message, the main window (the same one, no window is created)
\* starts loading the local error page, and error:getDetails asked next
\* returns that message.
C11_InitialLoadFailure ==
    [][ TaskRan(<< "loadURL.catch", "initial", ErrRefused >>)
        => /\ errorInfo' = ErrRefused
           /\ nav' = "error"
           /\ mainWindow' = mainWindow
           /\ mainWindow # NoWindow
           /\ wins' = wins
           /\ getErrorDetails(errorInfo') = ErrRefused ]_vars

\* C11 witness: the initial load failed, error.html is displayed in the main
\* window and error:getDetails has just answered with the captured message.
C11_Witness ==
    /\ lastOp = << "error:getDetails", ErrRefused >>
    /\ content = "error"
    /\ nav = "none"
    /\ errorInfo = ErrRefused
    /\ Cardinality({ w \in WinIds : wins[w] # "none" }) = 1

\* error:retry has just answered success from the failed state (error.html
\* displayed, no origin load in flight or abandoned) and the origin is
\* reachable.
RetriedFromFailed ==
    /\ lastOp = << "error:retry", "success", "" >>
    /\ nav = "retry"
    /\ content = "error"
    /\ abortedLoads = 0
    /\ originUp

\* The retry's load was overtaken: the origin went away, the window was
\* closed, or another navigation abandoned the load.
RetryOvertaken ==
    \/ ~originUp
    \/ mainWindow = NoWindow
    \/ abortedLoads > 0

\* C12: from the failed state, an error:retry issued while the origin is
\* reachable eventually leaves the main window displaying the origin with
\* errorInfo null (unless the origin goes away, the window is closed or the
\* load is itself superseded first); and error.html is displayed again only
\* after the catch of some load has captured a message.
C12_RetryRecovers ==
    /\ RetriedFromFailed
          ~> ( \/ content = "origin" /\ nav = "none" /\ errorInfo = "null"
               \/ RetryOvertaken )
    /\ [][ (content' = "error" /\ content # "error") => errorInfo # "null" ]_vars

\* C12 witness: the load started by a retry issued from the failed state has
\* finished: the origin is displayed and errorInfo is null.
C12_Witness ==
    /\ lastOp = << "did-finish-load", "retry" >>
    /\ content = "origin"
    /\ errorInfo = "null"
    /\ abortedLoads = 0

\* C13: the catch run for the rejection of a load that a retry superseded
\* changes neither errorInfo nor what the main window displays or loads.
\* (Runs in which a main window was closed are left out: there the abandoned
\* load may be a closed window's.)
C13_SupersededLoadIsInert ==
    [][ ( /\ TaskRan(<< "loadURL.catch", "abandoned", ErrAborted >>)
          /\ \A w \in WinIds : wins[w] # "main.closed" )
        => /\ errorInfo' = errorInfo
           /\ nav' = nav
           /\ content' = content ]_vars

\* C14: an error:retry handled while mainWindow is null answers
\* {success: false, error: 'Window destroyed'}, starts no navigation and
\* leaves errorInfo as it was.
C14_RetryWithoutWindow ==
    [][ ( /\ Len(lastOp') >= 1
          /\ lastOp'[1] = "error:retry"
          /\ originUp' = originUp
          /\ mainWindow = NoWindow )
        => /\ lastOp' = << "error:retry", "failure", "Window destroyed" >>
           /\ nav' = nav
           /\ abortedLoads' = abortedLoads
           /\ content' = content
           /\ errorInfo' = errorInfo ]_vars

\* C14 witness: with a failure message captured, the main window was closed
\* while the settings window stayed open, and a retry was refused.
C14_Witness ==
    /\ lastOp = << "error:retry", "failure", "Window destroyed" >>
    /\ mainWindow = NoWindow
    /\ settingsWindow # NoWindow
    /\ errorInfo = ErrRefused

(* ------------------------------------------------------------------ *)
(* Claims about the bridge                                            *)
(* ------------------------------------------------------------------ *)

\* The channels of the surface-to-core operations the bridge table lists.
TableRequests ==
    { "app:getVersion", "window:minimize", "window:maximize", "window:close",
      "settings:get", "settings:set", "settings:getAll",
      "settings:open", "settings:close", "hotkey:update",
      "microphone:update", "app:checkForUpdates", "error:retry",
      "error:getDetails", "log" }

\* C15: a call a page makes of a surface-to-core operation finds a function
\* in the exposed API and reaches the matching handler: the error page's retry
\* reaches error:retry, its details request error:getDetails, the settings
\* page's update button app:checkForUpdates.
C15_PagesReachHandlers ==
    [][ ( /\ Len(lastOp') = 3
          /\ lastOp'[1] = "electronAPI"
          /\ originUp' = originUp )
        => /\ lastOp'[3] \in HandledChannels
           /\ lastOp'[2] = "retryBackendConnection" => lastOp'[3] = "error:retry"
           /\ lastOp'[2] = "getErrorDetails" => lastOp'[3] = "error:getDetails"
           /\ lastOp'[2] = "checkForUpdates" => lastOp'[3] = "app:checkForUpdates" ]_vars

\* C16: while the application runs, the channels a page can send on or
\* invoke, and the channels the main process handles, are all operations of
\* the bridge table.
C16_OnlyTableChannels ==
    phase = "running"
        => SurfaceChannels \cup HandledChannels \subseteq TableRequests

(* ------------------------------------------------------------------ *)
(* Claims about the settings store, checked under StoreSpec           *)
(* ------------------------------------------------------------------ *)

\* The keys of the documented schema.
DocumentedKeys ==
    { "windowBounds", "displayName", "lastRoom", "micMuted", "volume",
      "noiseGateEnabled", "noiseGateThreshold", "hotkey",
      "selectedMicrophone" }

\* The values JSON represents.
JsonValues == { "55", "'Bob'" }

\* C17: a bridge handler whose subsystem fails answers its documented result
\* and lets no error through to the caller: settings:set always acknowledges.
C17_HandlersNeverReject ==
    [][ \A key \in JsKeys : \A v \in JsValues :
            SettingsSet(key, v) => lastOp'[2] = "ack" ]_vars

\* The step is the handling of settings:set(key, v).  A settings:set changes
\* at most its own key, which is tested first.
SetStep(key, v) ==
    /\ store'[key] # store[key] \/ store' = store
    /\ IF key = "hotkey" THEN SettingsSetHotkey(v) ELSE SettingsSet(key, v)

\* C18 as stated: for every schema key and every value v, a settings:set(key,
\* v) that was acknowledged is followed by a settings:get(key) returning v.
C18_SetThenGetAnyValue ==
    [][ \A key \in DocumentedKeys \ { "hotkey" } : \A v \in JsValues :
            ( SetStep(key, v) /\ lastOp'[2] = "ack" )
                => StoreGet(store', key) = v ]_vars

\* C18 amended: for every schema key and every value v that JSON represents,
\* settings:set(key, v) leaves the store answering v to settings:get(key),
\* and what it answers for a key changes only by a settings:set of that key.
C18_SetThenGet ==
    [][ /\ ( Len(lastOp') >= 1 /\ lastOp'[1] = "settings:set" )
              => /\ \A key \in DocumentedKeys \ { "hotkey" } :
                    \A v \in JsonValues :
                        SetStep(key, v) => StoreGet(store', key) = v
                 /\ \A v \in Accels :
                        SetStep("hotkey", v) => StoreGet(store', "hotkey") = v
        /\ store' # store
              => \A key \in StoreKeys :
                    StoreGet(store', key) # StoreGet(store, key)
                        => \E v \in IF key = "hotkey" THEN Accels ELSE JsValues :
                               SetStep(key, v)
      ]_vars

\* C18 witness: volume was set to 55 over its default, other requests
\* followed, and the store still answers 55.
C18_Witness ==
    /\ lastOp = << "settings:get" >>
    /\ StoreGet(store, "volume") = "55"
    /\ StoreGet(store, "hotkey") = << "Alt", "X" >>

\* C19: settings:get of a schema key that was never written answers a
\* default, never undefined.
C19_UnwrittenKeyHasDefault ==
    [][ \A key \in DocumentedKeys :
            ( SettingsGet(key) /\ store[key] = InitStore[key] )
                => IF key = "hotkey"
                   THEN StoreGet(store, key) # NoAccel
                   ELSE StoreGet(store, key) # Undefined ]_vars

\* C20: settings:getAll answers a mapping whose keys are exactly the schema
\* keys, whatever was set before.
C20_GetAllIsTheSchema ==
    [][ SettingsGetAll => StoreAll(store) = DocumentedKeys ]_vars

(* ------------------------------------------------------------------ *)
(* Claims about accelerator validation, checked under RebindSpec      *)
(* ------------------------------------------------------------------ *)

\* At least one modifier token followed by exactly one key token.
WellFormedAccel(a) ==
    /\ Len(a) >= 2
    /\ a[Len(a)] \notin ModifierTokens
    /\ \A i \in 1..(Len(a) - 1) : a[i] \in ModifierTokens

\* C28: every accelerator the main process registers, from the store at
\* startup or through hotkey:update, has at least one modifier and exactly
\* one key; a hotkey:update without a modifier is refused and leaves the
\* registration as it was.
C28_OnlyModifiedAccelerators ==
    /\ \A a \in osReg : WellFormedAccel(a)
    /\ ( hk.pc # "idle" /\ ~WellFormedAccel(hk.new) ) => osReg = hk.startReg

(* ------------------------------------------------------------------ *)
(* Claims about the navigation guard, checked under NavSpec           *)
(* ------------------------------------------------------------------ *)

\* C29: an in-page navigation of the main window goes through exactly when
\* its target has the origin of the configured URL; a target of another
\* origin is prevented even when its text starts with the configured URL,
\* so the main window never displays a page of another origin.
C29_SameOriginOnly ==
    [][ /\ \A url \in NavTargets :
              WillNavigate(url)
                  => ( lastOp'[2] = "allowed"
                          <=> OriginOf(url) = OriginOf(backendUrl) )
        /\ content' # "foreign" ]_vars

(* ------------------------------------------------------------------ *)
(* Claims about the update coordinator, checked under UpdSpec         *)
(* ------------------------------------------------------------------ *)

\* C23: app:checkForUpdates answers the reason 'disabled' when the
\* auto-update flag is off and the reason 'dev' when the flag is on in
\* development, and in both cases it registers no observer and starts no
\* check: the updater is as it was.
C23_SkippedManualCheck ==
    [][ \A outcome \in CheckOutcomes :
            CheckForUpdates(outcome) =>
                /\ ~autoUpdateEnabled(env)
                       => /\ lastOp' = << "app:checkForUpdates", "disabled" >>
                          /\ updater' = updater
                /\ ( autoUpdateEnabled(env) /\ isDev(env) )
                       => /\ lastOp' = << "app:checkForUpdates", "dev" >>
                          /\ updater' = updater ]_vars

\* A manual check was answered 'disabled' in development with the flag off.
C23_Witness ==
    /\ lastOp = << "app:checkForUpdates", "disabled" >>
    /\ isDev(env)
    /\ updater = UpdaterOff

\* C24: whatever startup and the manual checks did, every updater event has
\* at most one observer, and a manual check made once the updater is
\* initialized registers none: it uses the observers there are.
C24_ObserversRegisteredOnce ==
    [][ /\ updater'.observers <= 1
        /\ \A outcome \in CheckOutcomes :
               ( CheckForUpdates(outcome) /\ updater.initialized )
                   => updater'.observers = updater.observers ]_vars

\* Two manual checks went through after the startup initialization.
C24_Witness ==
    /\ Len(lastOp) = 3
    /\ lastOp[1] = "app:checkForUpdates"
    /\ updater.startupChecks = 1
    /\ updater.manualChecks = 2
    /\ updater.observers = 1

\* C25: with AUTO_UPDATE_ENABLED not set, auto-updates are disabled: no check
\* was started at startup, no hourly timer is scheduled, and a manual check is
\* answered 'disabled'.
C25_UnsetMeansDisabled ==
    ( phase = "running" /\ env.AUTO_UPDATE_ENABLED = Unset )
        => /\ updater.startupChecks = 0
           /\ ~updater.timer
           /\ ( Len(lastOp) > 1 /\ lastOp[1] = "app:checkForUpdates" )
                  => lastOp[2] = "disabled"

\* C26: a check is started at startup and the hourly timer is scheduled
\* exactly when auto-update is enabled and the posture is production, each
\* elapsed interval then starts one check, and otherwise neither startup nor
\* a timer ever starts one.
C26_ScheduledChecks ==
    [][ /\ phase' = "running"
            => IF autoUpdateEnabled(env') /\ ~isDev(env')
               THEN updater'.startupChecks = 1 /\ updater'.timer
               ELSE /\ updater'.startupChecks = 0
                    /\ ~updater'.timer
                    /\ updater'.timerChecks = 0
        /\ HourlyCheck => updater'.timerChecks = updater.timerChecks + 1
        /\ updater'.timerChecks > updater.timerChecks
            => /\ lastOp'[1] = "setInterval"
               /\ updater'.timerChecks = updater.timerChecks + 1 ]_vars

\* Two hourly intervals have elapsed after the startup check.
C26_Witness ==
    /\ phase = "running"
    /\ updater.startupChecks = 1
    /\ updater.timerChecks = 2

\* C27: with auto-update enabled in production, app:checkForUpdates always
\* resolves with a result: success when the check completes, the reason
\* 'error' when the check's promise is rejected or the call raises; the
\* invoke is never rejected.
C27_ManualCheckResolves ==
    [][ \A outcome \in CheckOutcomes :
            ( CheckForUpdates(outcome) /\ autoUpdateEnabled(env) /\ ~isDev(env) )
                => /\ Len(lastOp') = 3
                   /\ lastOp'[2] = IF outcome = "fulfilled" THEN "success"
                                   ELSE "error" ]_vars

\* A manual check whose call raised was answered with the reason 'error'.
C27_Witness == lastOp = << "app:checkForUpdates", "error", "raised" >>

(* ------------------------------------------------------------------ *)
(* Claims about the window geometry, checked under BoundsSpec         *)
(* ------------------------------------------------------------------ *)

\* C30: a resize or move event of the main window writes the window's bounds
\* to windowBounds when the window is not maximized and leaves the store as
\* it is when the window is maximized, and the windowBounds setting always
\* holds a width and a height that are positive integers.
C30_BoundsPersisted ==
    [][ /\ ( Len(lastOp') = 1 /\ lastOp'[1] \in { "resize", "moved" } )
            => IF geom'.maximized THEN store' = store
               ELSE store' = [ store EXCEPT !.windowBounds = geom'.bounds ]
        /\ LET size == SizeOf(store'.windowBounds) IN
           /\ Len(size) = 2
           /\ size[1] \in Nat \ {0}
           /\ size[2] \in Nat \ {0} ]_vars

(* ------------------------------------------------------------------ *)
(* Claims about clearing and ordering of the store                    *)
(* ------------------------------------------------------------------ *)

\* C21: the program has a clear-all operation outside the bridge: whenever the
\* running process holds written values, one step that is not a bridge
\* request can put every key back to what a first run holds.
C21_ClearAllProvided ==
    ( phase = "running" /\ Dirty(store) # {} )
        => ENABLED ( /\ StoreNext
                     /\ store' = InitStore
                     /\ lastOp'[1] \notin { "settings:set", "settings:get",
                                           "settings:getAll" } )

\* C22 as stated: once every received settings:set request has been handled,
\* each key holds the value of the request received last for it (a request
\* the store refused aside).
C22_LastReceivedWinsAnyValue ==
    inbox = << >>
        => \A key \in QueuedKeys :
               lastReceived[key].value \notin { "none", Undefined }
                   => StoreGet(store, key) = lastReceived[key].value

\* C22: settings:set requests are applied in the order they were received:
\* once all of them have been handled, each key whose last received request
\* carried a value JSON represents holds that value.
C22_LastReceivedWins ==
    inbox = << >>
        => \A key \in QueuedKeys :
               lastReceived[key].value \in JsonValues
                   => StoreGet(store, key) = lastReceived[key].value

\* Two requests for one key were queued together and both have been handled.
C22_Witness ==
    /\ inbox = << >>
    /\ lastOp = << "settings:set", "ack" >>
    /\ lastReceived["volume"] = [ value |-> "'Bob'", behind |-> TRUE ]
    /\ StoreGet(store, "volume") = "'Bob'"

(* ------------------------------------------------------------------ *)
(* Further claims about the hotkey manager, checked under Spec        *)
(* ------------------------------------------------------------------ *)

\* C32: whenever this process holds an accelerator registered with the OS, it
\* holds exactly the accelerator currentHotkey names: after the startup
\* registration, a successful rebind, a rollback registration and the
\* registration on activate, and in between.
C32_RegisteredIsCurrent == osReg # {} => osReg = { currentHotkey }

\* A rebind was declined and the rollback registered the old accelerator
\* again.
C32_Witness ==
    /\ JustUpdated
    /\ hk.rollback = "ok"
    /\ hk.new # hk.old
    /\ osReg = { hk.old }
    /\ currentHotkey = hk.old

C31_FailedHotkeyIsShown ==
    ( settingsPage.pc = "idle" /\ settingsPage.answer = "failure" )
        => settingsPage.hotkeyStatus = "failed"

(* ------------------------------------------------------------------ *)
(* Further claims about the connection supervisor, under ConnSpec     *)
(* ------------------------------------------------------------------ *)

\* C34: the catch of a load that belonged to a main window since closed sets
\* no failure message and loads no error page into the main window created
\* later.  (A main window still in its initial load has superseded no load
\* of its own, so an abandoned load rejected then is a closed window's.)
C34_ClosedWindowLoadIsInert ==
    [][ ( /\ TaskRan(<< "loadURL.catch", "abandoned", ErrAborted >>)
          /\ mainWindow # NoWindow
          /\ nav = "initial" )
        => /\ errorInfo' = errorInfo
           /\ nav' = nav ]_vars

\* C35: when an origin load of the main window succeeds, the window
\* displays the origin and no failure message is kept: errorInfo is null,
\* also in a main window created after an earlier window's failure.
C35_NoMessageAfterSuccess ==
    [][ ( /\ Len(lastOp') = 2
          /\ lastOp'[1] = "did-finish-load"
          /\ lastOp'[2] \in OriginLoads )
        => /\ content' = "origin"
           /\ errorInfo' = "null" ]_vars

====
